---- MODULE Spec2Model ----
(***************************************************************************)
(* A model of the traffic simulator of arkdong/traffic-agent-model:        *)
(* VehicleAgent (src/src/Agent.py), Track (src/src/track_interface.py) and *)
(* the driver loop Model.run (src/src/model.py).                           *)
(*                                                                         *)
(* Numbers.  The program computes with floats.  The model is fixed-point   *)
(* with resolution 0.01: a position 1994.0 m is 199400, a speed 12.19 m/s  *)
(* is 1219, an acceleration 0.37 m/s^2 is 37, and dt = 1.0 s, so that      *)
(* speed*dt and acceleration*dt keep their value.  Quotients are rounded   *)
(* down to the resolution (\div).  Comparisons that the code makes on      *)
(* products are made on the exact integer products.                        *)
(*                                                                         *)
(* Vehicles are identified by 1..n; the attributes of vehicle v are the    *)
(* record cars[v]; a lane is the sequence of the identities it holds, as   *)
(* the Python list holds references.  None (no vehicle) is NoCar.          *)
(***************************************************************************)
EXTENDS Integers, Sequences, FiniteSets, TLC

VARIABLES
  lanes_count,       \* Track.lanes_count
  central_control,   \* Track.central_control
  lanes_list,        \* Track.lanes_list: lane index -> sequence of vehicles
  cars,              \* the VehicleAgent objects: vehicle -> its attributes
  prefered_per_lane, \* Model.run's local, argument of lane_switches_central
  total_crossings,   \* Model.run's local
  t,                 \* Model.run's loop variable
  line,              \* the statement of Model.run's loop body to run next
  pc,                \* the function that is executing
  i,                 \* the lane index of the loop of the executing function
  k,                 \* the list iterator's index into lanes_list[i]
  lane_count,        \* lane_switches_central's local
  mean_speed_lane,   \* calculate_next_state's local: <<>> is None, <<m>> is m
  err,               \* the exception that ended the run, "" if none
  ret,               \* the last call made on the Track from outside, its result
  calls,             \* the number of such calls
  call_lanes,        \* history: lanes_list when the executing call began
  call_cars,         \* history: cars when the executing call began
  evaluated,         \* history: the lane-change evaluations of this call
  handed,            \* history: the arguments of this pass's decisions
  committed          \* history: the vehicles committed in this timestep

vars == << lanes_count, central_control, lanes_list, cars, prefered_per_lane,
           total_crossings, t, line, pc, i, k, lane_count, mean_speed_lane,
           err, ret, calls, call_lanes, call_cars, evaluated, handed,
           committed >>

----------------------------------------------------------------------------
(* Bounds of the model *)

NumCars == 3
MaxLanes == 3
MaxSteps == 2
MaxCalls == 2

(* Program constants, in hundredths *)

desired_speed == 3000
max_speed == 3500
length == 500
a_normal == 305
a_max == 604
b == 20
TP == 120
road_length == 200000
max_accel == 100
speed_push == 50
inf == 10000000
nan == inf + 1
NoCar == 0

(* The values the random draws of the model are taken from. *)
(* populate_lane: np.random.uniform(0, length - 5N) and uniform(0, 35). *)
InitPositions == {200, 3000, 199400}
InitSpeeds == {1000, 3490}
(* np.random.rand() in [0, 1), in hundredths. *)
Etas == {0, 99}

----------------------------------------------------------------------------
(* Python helpers *)

Min2(x, y) == IF y < x THEN y ELSE x
Max2(x, y) == IF y > x THEN y ELSE x

\* min(x, y, z) of Python: z replaces the smaller of x, y only if z < it,
\* and every comparison with nan is False.
PyMin3(x, y, z) ==
  LET m == Min2(x, y) IN IF z # nan /\ z < m THEN z ELSE m

SetMin(S) == CHOOSE x \in S : \A y \in S : x <= y
SetMax(S) == CHOOSE x \in S : \A y \in S : x >= y

RECURSIVE SeqSum(_)
SeqSum(s) == IF s = <<>> THEN 0 ELSE Head(s) + SeqSum(Tail(s))

Range(s) == { s[j] : j \in 1..Len(s) }

\* list.remove(x): the first occurrence is removed.
Remove(s, j) == SubSeq(s, 1, j - 1) \o SubSeq(s, j + 1, Len(s))

\* VehicleAgent.__lt__ and list.sort(), which is stable.
VehicleAgent_lt(cs, v, w) == cs[v].position < cs[w].position

RECURSIVE InsertSorted(_, _, _)
InsertSorted(cs, v, s) ==
  IF s = <<>> THEN <<v>>
  ELSE IF VehicleAgent_lt(cs, v, s[Len(s)])
       THEN Append(InsertSorted(cs, v, SubSeq(s, 1, Len(s) - 1)), s[Len(s)])
       ELSE Append(s, v)

RECURSIVE sort(_, _)
sort(cs, s) ==
  IF s = <<>> THEN <<>>
  ELSE InsertSorted(cs, s[Len(s)], sort(cs, SubSeq(s, 1, Len(s) - 1)))

IsSorted(cs, s) ==
  \A j \in 1..(Len(s) - 1) : cs[s[j]].position <= cs[s[j + 1]].position

----------------------------------------------------------------------------
(* VehicleAgent *)

\* VehicleAgent.__init__
VehicleAgent(position, current_speed) ==
  [ position |-> position, current_speed |-> current_speed,
    acceleration |-> 0, next_speed |-> <<>>,
    speed_list |-> <<0>>, position_list |-> <<0>>, lane_list |-> <<0>> ]

\* An acceleration_rate whose boundary 12.19 is on the high side.
acceleration_rate_exclusive(vF) == IF vF < 1219 THEN 110 ELSE 37

acceleration_rate(vF) == IF vF <= 1219 THEN 110 ELSE 37

\* A decceleration_rate that tries case 3 before case 1.
decceleration_rate_case3_first(vF, vL, aL, gap, gap_desire) ==
  IF gap * 100 - gap_desire < 0 /\ ~(vL > vF)
    THEN aL - (25 * a_normal) \div 100
  ELSE IF vF > desired_speed
    THEN Min2((vF - desired_speed) \div 3, a_normal)
  ELSE IF gap * 100 - gap_desire = 0 /\ ~(vL >= vF)
    THEN (vF * vF - vL * vL) \div (2 * gap)
  ELSE IF /\ gap * 100 - gap_desire > 0
          /\ ~(vL >= vF)
          /\ ~(gap > 3 * vF)
          /\ ~((gap > 2 * vF) /\ (gap > 750))
    THEN Min2(aL + ((vF - vL) * (vF - vL)) \div (2 * gap), a_max)
  ELSE 0

\* gap_desire is vF * TP, kept exact: it is in units of 0.0001.
decceleration_rate(vF, vL, aL, gap, gap_desire) ==
  IF vF > desired_speed
    THEN Min2((vF - desired_speed) \div 3, a_normal)
  ELSE IF gap * 100 - gap_desire = 0 /\ ~(vL >= vF)
    THEN (vF * vF - vL * vL) \div (2 * gap)
  ELSE IF gap * 100 - gap_desire < 0 /\ ~(vL > vF)
    THEN aL - (25 * a_normal) \div 100
  ELSE IF /\ gap * 100 - gap_desire > 0
          /\ ~(vL >= vF)
          /\ ~(gap > 3 * vF)
          /\ ~((gap > 2 * vF) /\ (gap > 750))
    THEN Min2(aL + ((vF - vL) * (vF - vL)) \div (2 * gap), a_max)
  ELSE 0

\* The case of decceleration_rate that returns: 1 to 4, or 0 for the
\* `return 0` of line 162.
decceleration_case(vF, vL, aL, gap, gap_desire) ==
  IF vF > desired_speed THEN 1
  ELSE IF gap * 100 - gap_desire = 0 /\ ~(vL >= vF) THEN 2
  ELSE IF gap * 100 - gap_desire < 0 /\ ~(vL > vF) THEN 3
  ELSE IF /\ gap * 100 - gap_desire > 0
          /\ ~(vL >= vF)
          /\ ~(gap > 3 * vF)
          /\ ~((gap > 2 * vF) /\ (gap > 750))
    THEN 4
  ELSE 0

\* A compute_decision that cruises below the desired gap when vL >= vF.
compute_decision_cruising_at_equal_speed(self, gap, leader_speed, leader_acceleration) ==
  LET vF == cars[self].current_speed
      vL == leader_speed
      gap_desire == vF * TP
      dec == decceleration_rate(vF, vL, leader_acceleration, gap, gap_desire)
  IN IF gap < 6 * vF
       THEN LET delta == gap * 100 - gap_desire IN
            IF delta > 0
              THEN IF vL >= vF THEN acceleration_rate(vF)
                   ELSE IF gap > 3 * vF THEN acceleration_rate(vF)
                   ELSE IF (gap > 2 * vF) /\ (gap > 750) THEN 0
                   ELSE dec
            ELSE IF delta = 0
              THEN IF vL >= vF THEN 0 ELSE dec
            ELSE IF vL >= vF THEN 0 ELSE dec
       ELSE LET delta == vF - desired_speed IN
            IF delta < 0 THEN acceleration_rate(vF)
            ELSE IF delta = 0 THEN 0
            ELSE dec

\* The value compute_decision writes to self.acceleration.
compute_decision(self, gap, leader_speed, leader_acceleration) ==
  LET vF == cars[self].current_speed
      vL == leader_speed
      gap_desire == vF * TP
      dec == decceleration_rate(vF, vL, leader_acceleration, gap, gap_desire)
  IN IF gap < 6 * vF
       THEN LET delta == gap * 100 - gap_desire IN
            IF delta > 0
              THEN IF vL >= vF THEN acceleration_rate(vF)
                   ELSE IF gap > 3 * vF THEN acceleration_rate(vF)
                   ELSE IF (gap > 2 * vF) /\ (gap > 750) THEN 0
                   ELSE dec
            ELSE IF delta = 0
              THEN IF vL >= vF THEN 0 ELSE dec
            ELSE IF vL > vF THEN 0 ELSE dec
       ELSE LET delta == vF - desired_speed IN
            IF delta < 0 THEN acceleration_rate(vF)
            ELSE IF delta = 0 THEN 0
            ELSE dec

\* The divisor of line 264, reaction_time + (current_speed + leader_speed)
\* / (2 * a_max), times the divisor 2 * a_max inside it.
safe_speed_divisor(self, leader_speed) ==
  2 * a_max + cars[self].current_speed + leader_speed

\* reaction_time is 1; inf - inf is nan.
compute_safe_speed(self, gap, leader_speed) ==
  IF gap = inf /\ leader_speed = inf THEN nan
  ELSE leader_speed
       + ((gap - leader_speed) * (2 * a_max))
           \div (2 * a_max + cars[self].current_speed + leader_speed)

\* cars: None (no lane there) or the pair (front, back) of a lane.
NoLane == [ lane |-> FALSE, front |-> NoCar, back |-> NoCar ]
Pair(front, back) == [ lane |-> TRUE, front |-> front, back |-> back ]

can_switch_lane(self, pair) ==
  IF pair = NoLane THEN FALSE
  ELSE IF pair = Pair(NoCar, NoCar) THEN TRUE
  ELSE LET car_front == pair.front
           car_behind == pair.back
           position == cars[self].position
       IN IF car_front = car_behind
            THEN \/ position < cars[car_front].position - length
                 \/ position - length > cars[car_front].position
          ELSE IF position > cars[car_front].position - length THEN FALSE
          ELSE IF position - length < cars[car_behind].position THEN FALSE
          ELSE TRUE

\* The assertion of can_switch_lanes holds.
can_switch_lanes_assert(cars_left, cars_right) == cars_left # cars_right

can_switch_lanes(self, cars_left, cars_right) ==
  << can_switch_lane(self, cars_left), can_switch_lane(self, cars_right) >>

traditional_lane_switch(self, car_front, cars_left, cars_right) ==
  LET can == can_switch_lanes(self, cars_left, cars_right)
      can_go_left == can[1]
      can_go_right == can[2]
      speed_difference ==
        cars[car_front].current_speed - cars[self].current_speed
      gap == (cars[car_front].position - cars[self].position) % road_length
      car_front_right == cars_right.front
  IN IF ~can_go_left /\ ~can_go_right THEN 0
     ELSE IF speed_difference < -500 /\ gap < cars[self].current_speed * 5
       THEN IF can_go_left THEN 1 ELSE 0
     ELSE IF can_go_right
       THEN IF car_front_right = NoCar THEN -1
            ELSE IF (cars[car_front_right].position - cars[self].position)
                      % road_length > 20000
              THEN -1
            ELSE 0
     ELSE 0

lane_switch(self, car_front, cars_left, cars_right) ==
  traditional_lane_switch(self, car_front, cars_left, cars_right)

\* Lines 289-311: the speed that calculate_next_state stages, given the
\* acceleration that compute_decision wrote.  eta and push are the two
\* random draws: eta in hundredths, push is rand() < AC.
StagedSpeed(self, acceleration, gap, leader_speed, mean_speed, eta, push) ==
  LET v_safe == compute_safe_speed(self, gap, leader_speed)
      v_ideal == PyMin3(max_speed,
                        cars[self].current_speed + acceleration, v_safe)
      e == IF mean_speed = <<>> THEN eta ELSE 50
      staged == Max2(0, v_ideal - (b * e) \div 100)
      dif_speed == Max2(-max_accel, Min2(max_accel, mean_speed[1] - staged))
      adjusted == staged + dif_speed
  IN IF mean_speed = <<>> THEN staged
     ELSE IF (0 < gap + 3 * (leader_speed - adjusted)) /\ push
       THEN adjusted + speed_push
     ELSE adjusted

\* A calculate_next_state that commits the speed it stages.
VehicleAgent_calculate_next_state_committing(self, gap, leader_speed, leader_acceleration, mean_speed, eta, push) ==
  LET acceleration == compute_decision(self, gap, leader_speed,
                                       leader_acceleration)
      next_speed == StagedSpeed(self, acceleration, gap, leader_speed,
                                mean_speed, eta, push)
  IN [ cars[self] EXCEPT !.acceleration = acceleration,
                         !.next_speed = << next_speed >>,
                         !.current_speed = next_speed ]

\* The attributes of self after calculate_next_state.
VehicleAgent_calculate_next_state(self, gap, leader_speed, leader_acceleration, mean_speed, eta, push) ==
  LET acceleration == compute_decision(self, gap, leader_speed,
                                       leader_acceleration)
      next_speed == StagedSpeed(self, acceleration, gap, leader_speed,
                                mean_speed, eta, push)
  IN [ cars[self] EXCEPT !.acceleration = acceleration,
                         !.next_speed = << next_speed >> ]

\* An update_state that records the speed and the position and not the lane.
VehicleAgent_update_state_without_lane(self, lane) ==
  LET current_speed == self.next_speed[1]
      position == self.position + current_speed
  IN [ self EXCEPT
         !.current_speed = current_speed,
         !.position = position,
         !.speed_list = Append(@, current_speed),
         !.position_list = Append(@, position) ]

\* update_state(dt, lane), dt = 1, on the attributes `self` of a vehicle
\* that has a next_speed.
VehicleAgent_update_state(self, lane) ==
  LET current_speed == self.next_speed[1]
      position == self.position + current_speed
  IN [ self EXCEPT
         !.current_speed = current_speed,
         !.position = position,
         !.speed_list = Append(@, current_speed),
         !.position_list = Append(@, position),
         !.lane_list = Append(@, lane) ]

----------------------------------------------------------------------------
(* Track: queries.  They read lanes_list as it is, sorted or not. *)

Lanes == 0..(lanes_count - 1)
Cars == DOMAIN cars

\* car_in_front comparing with >= instead of >.
car_in_front_not_strict(lane, position) ==
  LET l == lanes_list[lane]
      ahead == { j \in 1..Len(l) : cars[l[j]].position >= position }
  IN IF Len(l) = 0 THEN NoCar
     ELSE IF ahead # {} THEN l[SetMin(ahead)]
     ELSE l[1]

car_in_front(lane, position) ==
  LET l == lanes_list[lane]
      ahead == { j \in 1..Len(l) : cars[l[j]].position > position }
  IN IF Len(l) = 0 THEN NoCar
     ELSE IF ahead # {} THEN l[SetMin(ahead)]
     ELSE l[1]

car_in_back(lane, position) ==
  LET l == lanes_list[lane]
      behind == { j \in 1..Len(l) : cars[l[j]].position < position }
  IN IF Len(l) = 0 THEN NoCar
     ELSE IF behind # {} THEN l[SetMax(behind)]
     ELSE l[Len(l)]

\* The dictionary {cur_lane + 1: left, cur_lane - 1: right}.
closest_cars_sides(cur_lane, position) ==
  LET left_lane == cur_lane + 1
      right_lane == cur_lane - 1
  IN [ left |-> IF 0 <= left_lane /\ left_lane < lanes_count
                  THEN Pair(car_in_front(left_lane, position),
                            car_in_back(left_lane, position))
                  ELSE NoLane,
       right |-> IF 0 <= right_lane /\ right_lane < lanes_count
                   THEN Pair(car_in_front(right_lane, position),
                             car_in_back(right_lane, position))
                   ELSE NoLane ]

can_switch_central(vehicle, lane) ==
  LET sides == closest_cars_sides(lane, cars[vehicle].position)
  IN can_switch_lanes(vehicle, sides.left, sides.right)

\* A switch_lane that appends the vehicle to the new lane and leaves it in
\* the old one.
switch_lane_without_remove(lane, position, count) ==
  LET new_lane == lane + count
      l == lanes_list[lane]
      found == { j \in 1..Len(l) : cars[l[j]].position = position }
  IN IF ~(0 <= new_lane /\ new_lane < lanes_count)
       THEN [ raised |-> "AssertionError", lanes_list |-> lanes_list ]
     ELSE IF count = 0
       THEN [ raised |-> "", lanes_list |-> lanes_list ]
     ELSE IF Len(l) = 0
       THEN [ raised |-> "", lanes_list |-> lanes_list ]
     ELSE IF found # {}
       THEN [ raised |-> "",
              lanes_list |->
                [ lanes_list EXCEPT ![new_lane] = Append(@, l[SetMin(found)]) ] ]
     ELSE [ raised |-> "ValueError", lanes_list |-> lanes_list ]

\* switch_lane: the exception it raises ("" if it returns) and lanes_list
\* after it.
switch_lane(lane, position, count) ==
  LET new_lane == lane + count
      l == lanes_list[lane]
      found == { j \in 1..Len(l) : cars[l[j]].position = position }
  IN IF ~(0 <= new_lane /\ new_lane < lanes_count)
       THEN [ raised |-> "AssertionError", lanes_list |-> lanes_list ]
     ELSE IF count = 0
       THEN [ raised |-> "", lanes_list |-> lanes_list ]
     ELSE IF Len(l) = 0
       THEN [ raised |-> "", lanes_list |-> lanes_list ]
     ELSE IF found # {}
       THEN LET j == SetMin(found) IN
            [ raised |-> "",
              lanes_list |->
                [ lanes_list EXCEPT ![lane] = Remove(l, j),
                                    ![new_lane] = Append(@, l[j]) ] ]
     ELSE [ raised |-> "ValueError", lanes_list |-> lanes_list ]

\* lanes_list with lane `lane` sorted.
SortLane(lane) == [ lanes_list EXCEPT ![lane] = sort(cars, @) ]
SortAll == [ lane \in Lanes |-> sort(cars, lanes_list[lane]) ]

\* The lane a vehicle is in, by a given lanes_list.
LaneOf(ll, v) == CHOOSE lane \in DOMAIN ll : v \in Range(ll[lane])

\* An exception propagates out of Model.run: the run ends.
Raise(e) ==
  /\ pc' = "error"
  /\ err' = e

----------------------------------------------------------------------------
(* Track.init_cars and populate_lane; Model.run, lines 54-74 *)

\* Model.run, lines 64-70.
PreferedPerLane(lc, total_cars) ==
  [ lane \in 0..(lc - 1) |->
      (total_cars \div lc) + (IF lane < total_cars % lc THEN 1 ELSE 0) ]

NoCall == [ op |-> "", args |-> <<>>, raised |-> "", value |-> <<>> ]

\* A track between two timesteps, run by Model.run: lc lanes, each holding
\* its vehicles ascending and at least a vehicle length apart, below limit.
TrackState(Positions, Speeds, limit) ==
  \E lc \in 1..MaxLanes, cc \in BOOLEAN, n \in 0..NumCars :
  \E lane_of \in [1..n -> 0..(lc - 1)],
     position \in [1..n -> Positions],
     speed \in [1..n -> Speeds] :
    /\ \A v \in 1..(n - 1) :
         /\ lane_of[v] <= lane_of[v + 1]
         /\ lane_of[v] = lane_of[v + 1]
              => position[v + 1] >= position[v] + length
    /\ \A v \in 1..n : position[v] < limit
    /\ lanes_count = lc
    /\ central_control = cc
    /\ cars = [ v \in 1..n |-> VehicleAgent(position[v], speed[v]) ]
    /\ lanes_list =
         [ lane \in 0..(lc - 1) |->
             LET S == { v \in 1..n : lane_of[v] = lane }
             IN [ j \in 1..Cardinality(S) |-> SetMin(S) + j - 1 ] ]
    /\ prefered_per_lane = PreferedPerLane(lc, n)
    /\ total_crossings = 0
    /\ t = 0
    /\ line = "lane_change"
    /\ pc = "run"
    /\ i = 0
    /\ k = 0
    /\ lane_count = 0
    /\ mean_speed_lane = <<>>
    /\ err = ""
    /\ ret = NoCall
    /\ calls = 0
    /\ call_lanes = lanes_list
    /\ call_cars = cars
    /\ evaluated = <<>>
    /\ handed = <<>>
    /\ committed = {}

\* init_cars splits the N cars over the lanes in order; populate_lane places
\* the N of a lane at sorted(uniform(0, length - 5N)) + 5 * arange(N), so
\* they are ascending, at least 5 apart and below length - 5.
Init == TrackState(InitPositions, InitSpeeds, road_length - length)

----------------------------------------------------------------------------
(* Track.lane_switches *)

Track_lane_switches_call ==
  /\ pc' = "lane_switches"
  /\ i' = 0
  /\ k' = 0
  /\ lanes_list' = SortLane(0)
  /\ call_lanes' = lanes_list
  /\ evaluated' = <<>>

\* One iteration of `for vehicle in lane`: lines 65-70.
LaneSwitchesVehicle ==
  /\ pc = "lane_switches"
  /\ k < Len(lanes_list[i])
  /\ LET vehicle == lanes_list[i][k + 1]
         position == cars[vehicle].position
         front == car_in_front(i, position)
         sides == closest_cars_sides(i, position)
         count == lane_switch(vehicle, front, sides.left, sides.right)
         moved == switch_lane(i, position, count)
     IN /\ evaluated' = Append(evaluated, vehicle)
        /\ IF ~can_switch_lanes_assert(sides.left, sides.right)
             THEN Raise("AssertionError") /\ UNCHANGED << lanes_list, k >>
           ELSE IF moved.raised # ""
             THEN Raise(moved.raised) /\ UNCHANGED << lanes_list, k >>
           ELSE /\ lanes_list' = moved.lanes_list
                /\ k' = k + 1
                /\ UNCHANGED << pc, err >>
  /\ UNCHANGED << lanes_count, central_control, cars, prefered_per_lane,
                  total_crossings, t, line, i, lane_count, mean_speed_lane,
                  ret, calls, call_lanes, call_cars, handed, committed >>

\* The list iterator of lane i is exhausted: line 62 takes the next lane
\* and line 63 sorts it.
LaneSwitchesNextLane ==
  /\ pc = "lane_switches"
  /\ k >= Len(lanes_list[i])
  /\ i + 1 < lanes_count
  /\ i' = i + 1
  /\ k' = 0
  /\ lanes_list' = SortLane(i + 1)
  /\ UNCHANGED << lanes_count, central_control, cars, prefered_per_lane,
                  total_crossings, t, line, pc, lane_count, mean_speed_lane,
                  err, ret, calls, call_lanes, call_cars, evaluated, handed,
                  committed >>

LaneSwitchesReturn ==
  /\ pc = "lane_switches"
  /\ k >= Len(lanes_list[i])
  /\ i + 1 >= lanes_count
  /\ pc' = "run"
  /\ UNCHANGED << lanes_count, central_control, lanes_list, cars,
                  prefered_per_lane, total_crossings, t, line, i, k,
                  lane_count, mean_speed_lane, err, ret, calls, call_lanes,
                  call_cars, evaluated, handed, committed >>

----------------------------------------------------------------------------
(* Track.lane_switches_central *)

Track_lane_switches_central_call(prefered) ==
  /\ pc' = "lane_switches_central"
  /\ prefered_per_lane' = prefered
  /\ i' = 0
  /\ k' = 0
  /\ lanes_list' = SortAll
  /\ lane_count' = Len(lanes_list[0])
  /\ call_lanes' = lanes_list
  /\ evaluated' = <<>>

\* The move that line 98 computes from choice.
CentralCount(choice) ==
  (IF choice = 0 THEN 1 ELSE 0) - (IF choice = 1 THEN 1 ELSE 0)

\* One iteration of `for veh in self.lanes_list[lane_i]` that does not
\* break: lines 87-99.
CentralVehicle ==
  /\ pc = "lane_switches_central"
  /\ k < Len(lanes_list[i])
  /\ lane_count > prefered_per_lane[i]
  /\ LET veh == lanes_list[i][k + 1]
         position == cars[veh].position
         sides == closest_cars_sides(i, position)
         switch_posible == can_switch_central(veh, i)
         choices == IF switch_posible[1] /\ switch_posible[2] THEN {0, 1}
                    ELSE IF switch_posible[1] THEN {0}
                    ELSE {1}
     IN /\ evaluated' = Append(evaluated, veh)
        /\ IF ~can_switch_lanes_assert(sides.left, sides.right)
             THEN Raise("AssertionError") /\ UNCHANGED << lanes_list, k >>
           ELSE IF ~(switch_posible[1] \/ switch_posible[2])
             THEN /\ k' = k + 1
                  /\ UNCHANGED << lanes_list, pc, err >>
           ELSE \E choice \in choices :
                  LET moved == switch_lane(i, position, CentralCount(choice))
                  IN IF moved.raised # ""
                       THEN Raise(moved.raised)
                            /\ UNCHANGED << lanes_list, k >>
                     ELSE /\ lanes_list' = moved.lanes_list
                          /\ k' = k + 1
                          /\ UNCHANGED << pc, err >>
  /\ UNCHANGED << lanes_count, central_control, cars, prefered_per_lane,
                  total_crossings, t, line, i, lane_count, mean_speed_lane,
                  ret, calls, call_lanes, call_cars, handed, committed >>

\* The inner loop of lane i ends, by exhaustion or by the break of line
\* 101; line 81 takes the next lane, lines 83-85 sort every lane and count.
CentralNextLane ==
  /\ pc = "lane_switches_central"
  /\ ~(k < Len(lanes_list[i]) /\ lane_count > prefered_per_lane[i])
  /\ i + 1 < lanes_count
  /\ i' = i + 1
  /\ k' = 0
  /\ lanes_list' = SortAll
  /\ lane_count' = Len(lanes_list[i + 1])
  /\ UNCHANGED << lanes_count, central_control, cars, prefered_per_lane,
                  total_crossings, t, line, pc, mean_speed_lane, err, ret,
                  calls, call_lanes, call_cars, evaluated, handed,
                  committed >>

CentralReturn ==
  /\ pc = "lane_switches_central"
  /\ ~(k < Len(lanes_list[i]) /\ lane_count > prefered_per_lane[i])
  /\ i + 1 >= lanes_count
  /\ pc' = "run"
  /\ UNCHANGED << lanes_count, central_control, lanes_list, cars,
                  prefered_per_lane, total_crossings, t, line, i, k,
                  lane_count, mean_speed_lane, err, ret, calls, call_lanes,
                  call_cars, evaluated, handed, committed >>

----------------------------------------------------------------------------
(* Track.calculate_next_state *)

\* A mean speed that is zero for an empty lane under central control.
MeanSpeedLane_zero_when_empty(lane) ==
  LET l == lanes_list[lane] IN
  IF central_control
    THEN << IF Len(l) > 0
              THEN SeqSum([ j \in 1..Len(l) |-> cars[l[j]].current_speed ])
                     \div Len(l)
              ELSE 0 >>
    ELSE <<>>

\* Lines 106-115: None without central control and for an empty lane.
MeanSpeedLane(lane) ==
  LET l == lanes_list[lane] IN
  IF central_control /\ Len(l) > 0
    THEN << SeqSum([ j \in 1..Len(l) |-> cars[l[j]].current_speed ])
              \div Len(l) >>
    ELSE <<>>

Track_calculate_next_state_call ==
  /\ pc' = "calculate_next_state"
  /\ i' = 0
  /\ k' = 0
  /\ lanes_list' = SortLane(0)
  /\ mean_speed_lane' = MeanSpeedLane(0)
  /\ call_cars' = cars
  /\ handed' = <<>>

\* Lines 117-129 without the test of line 120: the vehicle that is its own
\* leader is handed its own values and the gap max(0, 0 - length).
LeaderArgs_without_alone_case(vehicle, lane) ==
  LET leader == car_in_front(lane, cars[vehicle].position)
      gap == Max2(0, ((cars[leader].position - cars[vehicle].position)
                        % road_length) - length)
  IN [ vehicle |-> vehicle, leader |-> leader, gap |-> gap,
       leader_speed |-> cars[leader].current_speed,
       leader_acceleration |-> cars[leader].acceleration ]

\* Lines 117-119 and the arguments of lines 121-139.
LeaderArgs(vehicle, lane) ==
  LET leader == car_in_front(lane, cars[vehicle].position)
      gap == Max2(0, ((cars[leader].position - cars[vehicle].position)
                        % road_length) - length)
  IN IF leader # vehicle
       THEN [ vehicle |-> vehicle, leader |-> leader, gap |-> gap,
              leader_speed |-> cars[leader].current_speed,
              leader_acceleration |-> cars[leader].acceleration ]
       ELSE [ vehicle |-> vehicle, leader |-> leader, gap |-> inf,
              leader_speed |-> inf, leader_acceleration |-> inf ]

\* One iteration of `for vehicle in lane`: lines 117-139.
CalculateVehicle ==
  /\ pc = "calculate_next_state"
  /\ k < Len(lanes_list[i])
  /\ LET vehicle == lanes_list[i][k + 1]
         a == LeaderArgs(vehicle, i)
     IN /\ \E eta \in Etas, push \in BOOLEAN :
             cars' = [ cars EXCEPT ![vehicle] =
                         VehicleAgent_calculate_next_state(
                           vehicle, a.gap, a.leader_speed,
                           a.leader_acceleration, mean_speed_lane, eta, push) ]
        /\ handed' = Append(handed, a)
  /\ k' = k + 1
  /\ UNCHANGED << lanes_count, central_control, lanes_list, prefered_per_lane,
                  total_crossings, t, line, pc, i, lane_count,
                  mean_speed_lane, err, ret, calls, call_lanes, call_cars,
                  evaluated, committed >>

CalculateNextLane ==
  /\ pc = "calculate_next_state"
  /\ k >= Len(lanes_list[i])
  /\ i + 1 < lanes_count
  /\ i' = i + 1
  /\ k' = 0
  /\ lanes_list' = SortLane(i + 1)
  /\ mean_speed_lane' = MeanSpeedLane(i + 1)
  /\ UNCHANGED << lanes_count, central_control, cars, prefered_per_lane,
                  total_crossings, t, line, pc, lane_count, err, ret, calls,
                  call_lanes, call_cars, evaluated, handed, committed >>

CalculateReturn ==
  /\ pc = "calculate_next_state"
  /\ k >= Len(lanes_list[i])
  /\ i + 1 >= lanes_count
  /\ pc' = "run"
  /\ UNCHANGED << lanes_count, central_control, lanes_list, cars,
                  prefered_per_lane, total_crossings, t, line, i, k,
                  lane_count, mean_speed_lane, err, ret, calls, call_lanes,
                  call_cars, evaluated, handed, committed >>

----------------------------------------------------------------------------
(* Track.update_state, and the periodic boundary of Model.run *)

\* The vehicles in the order in which the two loops visit them, each with
\* the index of the lane it is visited in.
RECURSIVE Visits(_)
Visits(lane) ==
  IF lane >= lanes_count THEN <<>>
  ELSE [ j \in 1..Len(lanes_list[lane]) |->
           [ vehicle |-> lanes_list[lane][j], lane |-> lane ] ]
       \o Visits(lane + 1)

\* The visits that are made before a vehicle without next_speed raises
\* AttributeError at line 314 of Agent.py.
CompletedVisits ==
  LET vs == Visits(0)
      bad == { j \in 1..Len(vs) : cars[vs[j].vehicle].next_speed = <<>> }
  IN IF bad = {} THEN vs ELSE SubSeq(vs, 1, SetMin(bad) - 1)

\* Track.update_state, whole: cars after it.  A vehicle is updated once for
\* every visit.
RECURSIVE ApplyVisits(_, _)
ApplyVisits(cs, vs) ==
  IF vs = <<>> THEN cs
  ELSE ApplyVisits(
         [ cs EXCEPT ![Head(vs).vehicle] =
             VehicleAgent_update_state(@, Head(vs).lane) ],
         Tail(vs))

Track_update_state ==
  /\ cars' = ApplyVisits(cars, CompletedVisits)
  /\ committed' =
       committed \cup { CompletedVisits[j].vehicle :
                          j \in 1..Len(CompletedVisits) }
  /\ IF Len(CompletedVisits) < Len(Visits(0))
       THEN Raise("AttributeError")
       ELSE UNCHANGED << pc, err >>

\* A periodic boundary that wraps the positions and counts no crossing.
Boundary_uncounted ==
  LET vs == Visits(0)
      over == { j \in 1..Len(vs) :
                  cars[vs[j].vehicle].position >= road_length }
  IN [ cars |->
         [ v \in Cars |->
             IF \E j \in over : vs[j].vehicle = v
               THEN [ cars[v] EXCEPT !.position = @ - road_length ]
               ELSE cars[v] ],
       total_crossings |-> total_crossings ]

\* Model.run, lines 87-92: cars and total_crossings after them.
Boundary ==
  LET vs == Visits(0)
      over == { j \in 1..Len(vs) :
                  cars[vs[j].vehicle].position >= road_length }
  IN [ cars |->
         [ v \in Cars |->
             IF \E j \in over : vs[j].vehicle = v
               THEN [ cars[v] EXCEPT !.position = @ - road_length ]
               ELSE cars[v] ],
       total_crossings |-> total_crossings + Cardinality(over) ]

----------------------------------------------------------------------------
(* Model.run: the loop of lines 76-92, for one density *)

\* A loop body that computes the decisions before the lane changes.
RunNext_decide_first(l) ==
  CASE l = "lane_change" -> "decide"
    [] l = "decide" -> "lane_change"
    [] l = "commit" -> "boundary"
    [] l = "boundary" -> "lane_change"

\* The order of the statements of the loop body.
RunNext(l) ==
  CASE l = "lane_change" -> "decide"
    [] l = "decide" -> "commit"
    [] l = "commit" -> "boundary"
    [] l = "boundary" -> "lane_change"

\* Lines 79-83, not central.
RunLaneSwitches ==
  /\ pc = "run" /\ line = "lane_change" /\ t < MaxSteps
  /\ lanes_count > 1 /\ ~central_control
  /\ Track_lane_switches_call
  /\ line' = RunNext(line)
  /\ UNCHANGED << lanes_count, central_control, cars, prefered_per_lane,
                  total_crossings, t, lane_count, mean_speed_lane, err, ret,
                  calls, call_cars, handed, committed >>

\* Lines 79-81, central.
RunLaneSwitchesCentral ==
  /\ pc = "run" /\ line = "lane_change" /\ t < MaxSteps
  /\ lanes_count > 1 /\ central_control
  /\ Track_lane_switches_central_call(prefered_per_lane)
  /\ line' = RunNext(line)
  /\ UNCHANGED << lanes_count, central_control, cars, total_crossings, t,
                  mean_speed_lane, err, ret, calls, call_cars, handed,
                  committed >>

\* Line 79 with one lane.
RunNoLaneChange ==
  /\ pc = "run" /\ line = "lane_change" /\ t < MaxSteps
  /\ ~(lanes_count > 1)
  /\ line' = RunNext(line)
  /\ UNCHANGED << lanes_count, central_control, lanes_list, cars,
                  prefered_per_lane, total_crossings, t, pc, i, k,
                  lane_count, mean_speed_lane, err, ret, calls, call_lanes,
                  call_cars, evaluated, handed, committed >>

\* Line 84.
RunCalculateNextState ==
  /\ pc = "run" /\ line = "decide"
  /\ Track_calculate_next_state_call
  /\ line' = RunNext(line)
  /\ UNCHANGED << lanes_count, central_control, cars, prefered_per_lane,
                  total_crossings, t, lane_count, err, ret, calls,
                  call_lanes, evaluated, committed >>

\* Line 85.
RunUpdateState ==
  /\ pc = "run" /\ line = "commit"
  /\ Track_update_state
  /\ line' = RunNext(line)
  /\ UNCHANGED << lanes_count, central_control, lanes_list,
                  prefered_per_lane, total_crossings, t, i, k, lane_count,
                  mean_speed_lane, ret, calls, call_lanes, call_cars,
                  evaluated, handed >>

\* Lines 87-92, and line 76 takes the next t.
RunBoundary ==
  /\ pc = "run" /\ line = "boundary"
  /\ cars' = Boundary.cars
  /\ total_crossings' = Boundary.total_crossings
  /\ t' = t + 1
  /\ line' = RunNext(line)
  /\ evaluated' = <<>>
  /\ handed' = <<>>
  /\ committed' = {}
  /\ UNCHANGED << lanes_count, central_control, lanes_list,
                  prefered_per_lane, pc, i, k, lane_count, mean_speed_lane,
                  err, ret, calls, call_lanes, call_cars >>

\* The range of line 76 is exhausted.
RunDone ==
  /\ pc = "run" /\ line = "lane_change" /\ t >= MaxSteps
  /\ pc' = "done"
  /\ UNCHANGED << lanes_count, central_control, lanes_list, cars,
                  prefered_per_lane, total_crossings, t, line, i, k,
                  lane_count, mean_speed_lane, err, ret, calls, call_lanes,
                  call_cars, evaluated, handed, committed >>

Next ==
  \/ RunLaneSwitches
  \/ RunLaneSwitchesCentral
  \/ RunNoLaneChange
  \/ RunCalculateNextState
  \/ RunUpdateState
  \/ RunBoundary
  \/ RunDone
  \/ LaneSwitchesVehicle
  \/ LaneSwitchesNextLane
  \/ LaneSwitchesReturn
  \/ CentralVehicle
  \/ CentralNextLane
  \/ CentralReturn
  \/ CalculateVehicle
  \/ CalculateNextLane
  \/ CalculateReturn

Spec == Init /\ [][Next]_vars

\* The interpreter runs one thread and always executes the next statement.
SpecFair == Spec /\ WF_vars(Next)

----------------------------------------------------------------------------
(* The operations of Track, called from outside in any order *)

\* Positions of a track between two timesteps: the boundary of Model.run
\* keeps them in [0, road_length).
CallPositions == {200, 3000, 199900}
CallSpeeds == {1000}

InitCalls == TrackState(CallPositions, CallSpeeds, road_length)

Called(op, args, raised, value) ==
  /\ ret' = [ op |-> op, args |-> args, raised |-> raised, value |-> value ]
  /\ calls' = calls + 1

CallLaneSwitches ==
  /\ pc = "run" /\ calls < MaxCalls
  /\ Track_lane_switches_call
  /\ Called("lane_switches", <<>>, "", <<>>)
  /\ UNCHANGED << lanes_count, central_control, cars, prefered_per_lane,
                  total_crossings, t, line, lane_count, mean_speed_lane, err,
                  call_cars, handed, committed >>

CallLaneSwitchesCentral ==
  /\ pc = "run" /\ calls < MaxCalls
  /\ Track_lane_switches_central_call(
       PreferedPerLane(lanes_count, Cardinality(Cars)))
  /\ Called("lane_switches_central", <<>>, "", <<>>)
  /\ UNCHANGED << lanes_count, central_control, cars, total_crossings, t,
                  line, mean_speed_lane, err, call_cars, handed, committed >>

CallCalculateNextState ==
  /\ pc = "run" /\ calls < MaxCalls
  /\ Track_calculate_next_state_call
  /\ Called("calculate_next_state", <<>>, "", <<>>)
  /\ UNCHANGED << lanes_count, central_control, cars, prefered_per_lane,
                  total_crossings, t, line, lane_count, err, call_lanes,
                  evaluated, committed >>

CallUpdateState ==
  /\ pc = "run" /\ calls < MaxCalls
  /\ Track_update_state
  /\ Called("update_state", <<>>, "", <<>>)
  /\ call_cars' = cars
  /\ UNCHANGED << lanes_count, central_control, lanes_list,
                  prefered_per_lane, total_crossings, t, line, i, k,
                  lane_count, mean_speed_lane, call_lanes, evaluated,
                  handed >>

\* switch_lane(lane, position, count).  The caller catches what it raises.
CallSwitchLane ==
  /\ pc = "run" /\ calls < MaxCalls
  /\ \E lane \in Lanes, count \in {-1, 0, 1},
        position \in { cars[v].position : v \in Cars } \cup {0} :
       LET moved == switch_lane(lane, position, count)
       IN /\ lanes_list' = moved.lanes_list
          /\ Called("switch_lane", << lane, position, count >>,
                    moved.raised, <<>>)
  /\ call_lanes' = lanes_list
  /\ UNCHANGED << lanes_count, central_control, cars, prefered_per_lane,
                  total_crossings, t, line, pc, i, k, lane_count,
                  mean_speed_lane, err, call_cars, evaluated, handed,
                  committed >>

\* vehicle.can_switch_lane(cars), cars being what closest_cars_sides gives
\* for the lane `count` lanes from the vehicle's, as in can_switch_central.
CallCanSwitchLane ==
  /\ pc = "run" /\ calls < MaxCalls
  /\ \E vehicle \in Cars, count \in {-1, 1} :
       LET lane == LaneOf(lanes_list, vehicle)
           sides == closest_cars_sides(lane, cars[vehicle].position)
           pair == IF count = 1 THEN sides.left ELSE sides.right
       IN Called("can_switch_lane", << vehicle, lane + count, pair >>, "",
                 << can_switch_lane(vehicle, pair) >>)
  /\ UNCHANGED << lanes_count, central_control, lanes_list, cars,
                  prefered_per_lane, total_crossings, t, line, pc, i, k,
                  lane_count, mean_speed_lane, err, call_lanes, call_cars,
                  evaluated, handed, committed >>

NextCalls ==
  \/ CallLaneSwitches
  \/ CallLaneSwitchesCentral
  \/ CallCalculateNextState
  \/ CallUpdateState
  \/ CallSwitchLane
  \/ CallCanSwitchLane
  \/ LaneSwitchesVehicle
  \/ LaneSwitchesNextLane
  \/ LaneSwitchesReturn
  \/ CentralVehicle
  \/ CentralNextLane
  \/ CentralReturn
  \/ CalculateVehicle
  \/ CalculateNextLane
  \/ CalculateReturn

SpecCalls == InitCalls /\ [][NextCalls]_vars

----------------------------------------------------------------------------
(* The decision functions of one VehicleAgent, called from outside as the   *)
(* unit tests of src/test/AgentTest.py call them                            *)

\* The follower speeds, leader speeds, leader accelerations and gaps the
\* calls are made with, and the gap_desire values (in units of 0.0001).
AgentSpeeds == {0, 300, 1000, 1219, 1220, 2500, 3000, 3490}
LeaderSpeeds == {0, 1000, 2500, 3490, inf}
LeaderAccelerations == {0, 37}
AgentGaps == {0, 700, 1200, 3000, 3500, 6000, 10000, inf}
GapDesires == {1000 * TP, 2500 * TP}

\* AgentTest.__init__: VehicleAgent(position=1000, current_speed=...), here
\* the only vehicle of a 1-lane track.
InitAgent ==
  \E current_speed \in AgentSpeeds :
    /\ lanes_count = 1
    /\ central_control = FALSE
    /\ cars = << VehicleAgent(100000, current_speed) >>
    /\ lanes_list = [ lane \in {0} |-> << 1 >> ]
    /\ prefered_per_lane = PreferedPerLane(1, 1)
    /\ total_crossings = 0
    /\ t = 0
    /\ line = "lane_change"
    /\ pc = "run"
    /\ i = 0
    /\ k = 0
    /\ lane_count = 0
    /\ mean_speed_lane = <<>>
    /\ err = ""
    /\ ret = NoCall
    /\ calls = 0
    /\ call_lanes = lanes_list
    /\ call_cars = cars
    /\ evaluated = <<>>
    /\ handed = <<>>
    /\ committed = {}

\* agent.compute_decision(gap, leader_speed, leader_acceleration): it
\* returns None and writes agent.acceleration.
CallComputeDecision ==
  /\ pc = "run" /\ calls < MaxCalls
  /\ \E gap \in AgentGaps, leader_speed \in LeaderSpeeds,
        leader_acceleration \in LeaderAccelerations :
       /\ cars' = [ cars EXCEPT ![1].acceleration =
                      compute_decision(1, gap, leader_speed,
                                       leader_acceleration) ]
       /\ Called("compute_decision",
                 << gap, leader_speed, leader_acceleration >>, "", <<>>)
  /\ call_cars' = cars
  /\ UNCHANGED << lanes_count, central_control, lanes_list,
                  prefered_per_lane, total_crossings, t, line, pc, i, k,
                  lane_count, mean_speed_lane, err, call_lanes, evaluated,
                  handed, committed >>

\* agent.decceleration_rate(vF, vL, aL, gap, gap_desire)
CallDeccelerationRate ==
  /\ pc = "run" /\ calls < MaxCalls
  /\ \E vF \in AgentSpeeds, vL \in LeaderSpeeds, aL \in LeaderAccelerations,
        gap \in AgentGaps, gap_desire \in GapDesires :
       Called("decceleration_rate", << vF, vL, aL, gap, gap_desire >>, "",
              << decceleration_rate(vF, vL, aL, gap, gap_desire) >>)
  /\ UNCHANGED << lanes_count, central_control, lanes_list, cars,
                  prefered_per_lane, total_crossings, t, line, pc, i, k,
                  lane_count, mean_speed_lane, err, call_lanes, call_cars,
                  evaluated, handed, committed >>

\* agent.acceleration_rate(vF)
CallAccelerationRate ==
  /\ pc = "run" /\ calls < MaxCalls
  /\ \E vF \in AgentSpeeds :
       Called("acceleration_rate", << vF >>, "", << acceleration_rate(vF) >>)
  /\ UNCHANGED << lanes_count, central_control, lanes_list, cars,
                  prefered_per_lane, total_crossings, t, line, pc, i, k,
                  lane_count, mean_speed_lane, err, call_lanes, call_cars,
                  evaluated, handed, committed >>

NextAgent ==
  \/ CallComputeDecision
  \/ CallDeccelerationRate
  \/ CallAccelerationRate

SpecAgent == InitAgent /\ [][NextAgent]_vars

-----------------------------------------------------------------------------
(* VehicleAgent.lane_switch, asked of one vehicle of a populated track     *)
(* with the neighbours Track.lane_switches looks up for it                 *)

SwitchPositions == {200, 3000, 20200, 20300}
SwitchSpeeds == {1000, 1500, 3000}

InitLaneSwitch == TrackState(SwitchPositions, SwitchSpeeds, road_length - length)

\* Lines 65-69 of Track.lane_switches for one vehicle, without the move.
CallLaneSwitch ==
  /\ pc = "run" /\ calls < MaxCalls
  /\ \E vehicle \in Cars :
       LET lane == LaneOf(lanes_list, vehicle)
           position == cars[vehicle].position
           front == car_in_front(lane, position)
           sides == closest_cars_sides(lane, position)
           args == << vehicle, front, sides.left, sides.right >>
       IN IF ~can_switch_lanes_assert(sides.left, sides.right)
            THEN Called("lane_switch", args, "AssertionError", <<>>)
          ELSE Called("lane_switch", args, "",
                      << lane_switch(vehicle, front, sides.left,
                                     sides.right) >>)
  /\ UNCHANGED << lanes_count, central_control, lanes_list, cars,
                  prefered_per_lane, total_crossings, t, line, pc, i, k,
                  lane_count, mean_speed_lane, err, call_lanes, call_cars,
                  evaluated, handed, committed >>

NextLaneSwitch == CallLaneSwitch

SpecLaneSwitch == InitLaneSwitch /\ [][NextLaneSwitch]_vars

----------------------------------------------------------------------------
(* The claims *)

\* The vehicles of every lane.
Members(ll) == [ lane \in DOMAIN ll |-> Range(ll[lane]) ]

\* The lane-change pass is about to evaluate a vehicle of lane i.
LaneSwitchesEvaluates == pc = "lane_switches" /\ k < Len(lanes_list[i])
CentralQueries ==
  /\ pc = "lane_switches_central"
  /\ k < Len(lanes_list[i])
  /\ lane_count > prefered_per_lane[i]
CalculateQueries == pc = "calculate_next_state" /\ k < Len(lanes_list[i])

\* C1: within one call of lane_switches, every vehicle's intent is computed
\* from the lane memberships as they stood when the call began: whenever the
\* pass is about to evaluate a vehicle, no vehicle has yet been moved.
C1_IntentsFromSnapshot ==
  LaneSwitchesEvaluates => Members(lanes_list) = Members(call_lanes)

\* C2: every vehicle with a distinct leader is handed the current_speed and
\* the acceleration its leader had when the decision pass began, that is at
\* the end of the previous timestep.
C2_LeaderValuesOfPreviousStep ==
  \A j \in 1..Len(handed) :
    handed[j].leader # handed[j].vehicle =>
      /\ handed[j].leader_speed = call_cars[handed[j].leader].current_speed
      /\ handed[j].leader_acceleration
           = call_cars[handed[j].leader].acceleration

\* C3: during the decision pass, and after it until the commit, every
\* vehicle has the current_speed, the position and the histories it had when
\* the pass began: only acceleration and next_speed are written.
C3_DecisionsOnlyStage ==
  (pc = "calculate_next_state" \/ (pc = "run" /\ line = "commit")) =>
    \A v \in Cars :
      cars[v] = [ call_cars[v] EXCEPT !.acceleration = cars[v].acceleration,
                                      !.next_speed = cars[v].next_speed ]

\* C3's case: the pass has decided for every vehicle, and has written an
\* acceleration, and the commit has not run yet.
C3_Witness ==
  /\ pc = "run" /\ line = "commit"
  /\ Cardinality(Cars) >= 2
  /\ { handed[j].vehicle : j \in 1..Len(handed) } = Cars
  /\ \E v \in Cars : /\ cars[v].acceleration # call_cars[v].acceleration
                     /\ cars[v].next_speed # << cars[v].current_speed >>

\* The lanes a neighbor query for a vehicle of lane `lane` reads.
QueriedLanes(lane) == { lane - 1, lane, lane + 1 } \cap Lanes

\* C4: whenever a neighbor query is evaluated on a lane during
\* lane_switches, lane_switches_central or calculate_next_state, that lane
\* is sorted ascending by position.
C4_QueriedLanesSorted ==
  /\ (LaneSwitchesEvaluates \/ CentralQueries) =>
       \A lane \in QueriedLanes(i) : IsSorted(cars, lanes_list[lane])
  /\ CalculateQueries => IsSorted(cars, lanes_list[i])

\* C5: in one call of lane_switches no vehicle ends more than one lane
\* from the lane it was in when the call began.
C5_AtMostOneLane ==
  ~central_control =>
    \A v \in Cars :
      LET d == LaneOf(lanes_list, v) - LaneOf(call_lanes, v)
      IN -1 <= d /\ d <= 1

\* C6: in every timestep of the driver loop the three phases do not
\* interleave: while the lane-change pass runs no decision of the timestep
\* has been computed and no vehicle committed; while the decision pass runs
\* no vehicle has been committed; and once a vehicle is committed the
\* decision of every vehicle has been computed.
C6_PhasesInOrder ==
  /\ pc \in {"lane_switches", "lane_switches_central"} =>
       handed = <<>> /\ committed = {}
  /\ pc = "calculate_next_state" => committed = {}
  /\ committed # {} =>
       /\ pc = "run"
       /\ { handed[j].vehicle : j \in 1..Len(handed) } = Cars

\* C6's case: a timestep after the first, on more than one lane, in which
\* the lane-change pass evaluated, the decision pass decided and the commit
\* committed.
C6_Witness ==
  /\ lanes_count > 1
  /\ t = 1
  /\ evaluated # <<>>
  /\ handed # <<>>
  /\ committed # {}

\* C7: every vehicle is in exactly one lane's collection exactly once, and
\* the lanes hold as many vehicles as were created.
C7_EachVehicleInOneLaneOnce ==
  /\ \A v \in Cars :
       Cardinality({ p \in Lanes \X (1..Cardinality(Cars) + 1) :
                       /\ p[2] <= Len(lanes_list[p[1]])
                       /\ lanes_list[p[1]][p[2]] = v }) = 1
  /\ SeqSum([ j \in 1..lanes_count |-> Len(lanes_list[j - 1]) ])
       = Cardinality(Cars)
  /\ DOMAIN cars = DOMAIN call_cars

\* C7's case: after a call of switch_lane that moved a vehicle, a second
\* operation has run on the track.
C7_Witness ==
  /\ calls = 2
  /\ pc = "run"
  /\ ret.op \in {"lane_switches", "lane_switches_central", "switch_lane",
                 "calculate_next_state"}
  /\ \E v \in Cars : LaneOf(lanes_list, v) # 0
  /\ Cardinality(Cars) >= 2

\* C8: every vehicle's current_speed is within [0, max_speed], at the start
\* and after every commit, with and without central control.
C8_SpeedWithinLimits ==
  \A v \in Cars :
    0 <= cars[v].current_speed /\ cars[v].current_speed <= max_speed

\* The body segments (p - length, p] and (q - length, q] overlap on the
\* circular road.
Overlap(p, q) ==
  LET d == (q - p) % road_length
  IN d < length \/ road_length - d < length

\* C9: can_switch_lane is False whenever the front or the back neighbor in
\* the candidate lane overlaps the vehicle's body segment on the circular
\* road; it is True for an empty lane and False where there is no lane.
C9_NoSwitchOntoNeighbor ==
  ret.op = "can_switch_lane" =>
    LET position == cars[ret.args[1]].position
        pair == ret.args[3]
    IN /\ pair = NoLane => ret.value = << FALSE >>
       /\ pair = Pair(NoCar, NoCar) => ret.value = << TRUE >>
       /\ ( /\ pair.front # NoCar
            /\ \/ Overlap(position, cars[pair.front].position)
               \/ Overlap(position, cars[pair.back].position) )
            => ret.value = << FALSE >>

\* C10: switch_lane raises whenever the source lane holds no vehicle at
\* `position`, and whenever lane + count is no lane.
C10_SwitchLaneFailsLoudly ==
  ret.op = "switch_lane" =>
    LET lane == ret.args[1]
        position == ret.args[2]
        count == ret.args[3]
    IN ( \/ \A v \in Range(call_lanes[lane]) : cars[v].position # position
         \/ lane + count \notin Lanes )
       => ret.raised # ""

\* The far-field branch of compute_decision for a follower speed vF.
FarField(vF) ==
  IF vF < desired_speed THEN acceleration_rate(vF)
  ELSE IF vF = desired_speed THEN 0
  ELSE decceleration_rate(vF, inf, inf, inf, vF * TP)

\* C11: a vehicle alone in its lane is its own car_in_front; the decision
\* pass hands it an infinite gap, leader speed and leader acceleration, and
\* the acceleration written for it is the far-field one, chosen by
\* comparing current_speed with desired_speed only.
C11_AloneVehicleFreeFlow ==
  \A j \in 1..Len(handed) :
    LET a == handed[j]
        v == a.vehicle
    IN Len(lanes_list[LaneOf(lanes_list, v)]) = 1 =>
         /\ a.leader = v
         /\ a.gap = inf /\ a.leader_speed = inf /\ a.leader_acceleration = inf
         /\ (pc = "calculate_next_state" \/ (pc = "run" /\ line = "commit"))
              => cars[v].acceleration = FarField(cars[v].current_speed)

\* C11's case: the pass has decided for a vehicle alone in its lane that is
\* faster than desired_speed, and for one that is slower.
C11_Witness ==
  /\ pc = "run" /\ line = "commit"
  /\ \E j, h \in 1..Len(handed) :
       /\ handed[j].leader = handed[j].vehicle
       /\ handed[h].leader = handed[h].vehicle
       /\ cars[handed[j].vehicle].current_speed > desired_speed
       /\ cars[handed[h].vehicle].current_speed < desired_speed

\* The three histories of a vehicle's attributes.
Histories(self) == << self.speed_list, self.position_list, self.lane_list >>

\* C12: the three histories of every vehicle have one length, the same for
\* all vehicles of the track; only update_state changes them, and it appends
\* to each exactly one entry: the committed speed, the new position and the
\* index of the lane the vehicle is in.
C12_HistoriesAligned ==
  /\ [](\A v, w \in Cars :
          /\ Len(cars[v].speed_list) = Len(cars[v].position_list)
          /\ Len(cars[v].speed_list) = Len(cars[v].lane_list)
          /\ Len(cars[v].speed_list) = Len(cars[w].speed_list))
  /\ [][\A v \in Cars :
          Histories(cars'[v]) # Histories(cars[v]) =>
            /\ pc = "run" /\ line = "commit"
            /\ cars'[v].speed_list
                 = Append(cars[v].speed_list, cars'[v].current_speed)
            /\ cars'[v].position_list
                 = Append(cars[v].position_list, cars'[v].position)
            /\ cars'[v].lane_list
                 = Append(cars[v].lane_list, LaneOf(lanes_list, v))]_vars

\* C12's case: the second timestep has been committed for at least two
\* vehicles, one of them in a lane other than lane 0.
C12_Witness ==
  /\ pc = "run" /\ line = "boundary" /\ t = 1
  /\ Cardinality(Cars) >= 2
  /\ committed = Cars
  /\ \E v \in Cars : /\ Len(cars[v].lane_list) = 3
                     /\ cars[v].lane_list[3] # 0
                     /\ cars[v].speed_list[3] # cars[v].speed_list[2]

\* C13: a 2-lane track without vehicles runs its timesteps without an
\* error and counts no crossing; the mean speed of an empty lane is None.
C13_EmptyTrackRuns ==
  /\ (lanes_count = 2 /\ Cars = {}) =>
       /\ pc # "error" /\ err = ""
       /\ total_crossings = 0
  /\ (pc = "calculate_next_state" /\ Len(lanes_list[i]) = 0) =>
       mean_speed_lane = <<>>

\* C13's case: the run of an empty 2-lane track under central control has
\* ended, all its timesteps done.
C13_Witness ==
  /\ lanes_count = 2 /\ Cars = {} /\ central_control
  /\ pc = "done" /\ t = MaxSteps

\* The branch table of the decision tree: the acceleration for a follower
\* speed vF, a gap, a leader speed vL and a leader acceleration aL.
DecisionTable(vF, gap, vL, aL) ==
  LET accelerate == acceleration_rate(vF)
      cruise == 0
      decelerate == decceleration_rate(vF, vL, aL, gap, vF * TP)
      delta == gap * 100 - vF * TP
  IN IF gap < 6 * vF
       THEN CASE delta > 0 ->
                   IF vL >= vF THEN accelerate
                   ELSE IF gap > 3 * vF THEN accelerate
                   ELSE IF gap > 2 * vF /\ gap > 750 THEN cruise
                   ELSE decelerate
              [] delta = 0 -> IF vL >= vF THEN cruise ELSE decelerate
              [] delta < 0 -> IF vL > vF THEN cruise ELSE decelerate
     ELSE CASE vF < desired_speed -> accelerate
            [] vF = desired_speed -> cruise
            [] vF > desired_speed -> decelerate

\* C14: compute_decision writes the acceleration of the branch table, and
\* 0.37 for vF = vL = 25, gap = 100.
C14_DecisionBranchTable ==
  ret.op = "compute_decision" =>
    /\ cars[1].acceleration
         = DecisionTable(cars[1].current_speed, ret.args[1], ret.args[2],
                         ret.args[3])
    /\ (cars[1].current_speed = 2500 /\ ret.args = << 10000, 2500, 37 >>)
         => cars[1].acceleration = 37

\* C14's case: below the desired gap with a leader exactly as fast, the
\* decision is to decelerate, by case 3 of decceleration_rate.
C14_Witness ==
  /\ ret.op = "compute_decision"
  /\ cars[1].current_speed = 2500
  /\ ret.args = << 700, 2500, 0 >>
  /\ cars[1].acceleration = 0 - (25 * a_normal) \div 100

\* The cases of decceleration_rate in order, the first match winning.
DeccelerationCases(vF, vL, aL, gap, gap_desire) ==
  LET gap100 == gap * 100 IN
  IF vF > desired_speed
    THEN Min2((vF - desired_speed) \div 3, a_normal)
  ELSE IF gap100 = gap_desire /\ vL < vF
    THEN (vF * vF - vL * vL) \div (2 * gap)
  ELSE IF gap100 < gap_desire /\ vL <= vF
    THEN aL - (25 * a_normal) \div 100
  ELSE IF /\ gap100 > gap_desire /\ vL < vF /\ gap <= 3 * vF
          /\ ~(gap > 2 * vF /\ gap > 750)
    THEN Min2(aL + ((vF - vL) * (vF - vL)) \div (2 * gap), a_max)
  ELSE 0

\* C15: decceleration_rate returns the value of the first of its four cases
\* that matches and 0 if none does; 0 for vF = vL = 25, aL = 0.37, gap = 100,
\* gap_desire = 30.
C15_DeccelerationCasesInOrder ==
  ret.op = "decceleration_rate" =>
    /\ ret.value = << DeccelerationCases(ret.args[1], ret.args[2],
                                         ret.args[3], ret.args[4],
                                         ret.args[5]) >>
    /\ ret.args = << 2500, 2500, 37, 10000, 2500 * TP >>
         => ret.value = << 0 >>

\* C15's case: a call that matches case 1 and case 3 returns case 1's value.
C15_Witness ==
  /\ ret.op = "decceleration_rate"
  /\ ret.args = << 3490, 0, 0, 0, 1000 * TP >>
  /\ ret.value = << (3490 - desired_speed) \div 3 >>

\* C16: acceleration_rate returns 1.1 up to and at 12.19 and 0.37 above.
C16_AccelerationRateValues ==
  ret.op = "acceleration_rate" =>
    /\ ret.args[1] <= 1219 => ret.value = << 110 >>
    /\ ret.args[1] > 1219 => ret.value = << 37 >>
    /\ ret.value \in { << 110 >>, << 37 >> }

\* C16's case: the call at the boundary 12.19.
C16_Witness ==
  /\ ret.op = "acceleration_rate"
  /\ ret.args = << 1219 >>
  /\ ret.value = << 110 >>

\* C17: after every committed timestep, boundary correction included, no
\* two vehicles of one lane have overlapping body segments.
C17_NoOverlapInLane ==
  (pc = "run" /\ line = "lane_change") =>
    \A v, w \in Cars :
      (v # w /\ LaneOf(lanes_list, v) = LaneOf(lanes_list, w))
        => ~Overlap(cars[v].position, cars[w].position)

\* The number of times the call has evaluated vehicle v.
Evaluations(v) == Cardinality({ j \in 1..Len(evaluated) : evaluated[j] = v })

\* C18: when a call of lane_switches returns, it has evaluated the intent
\* of every vehicle of the track exactly once.
C18_EveryVehicleEvaluatedOnce ==
  ( /\ ~central_control /\ lanes_count > 1
    /\ pc = "run" /\ line = "decide" ) =>
    \A v \in Cars : Evaluations(v) = 1

\* C19: while lane_switches_central processes a lane that it found above
\* its share, the occupancy of the lane does not drop below the share.
C19_NoMoveBelowShare ==
  (pc = "lane_switches_central" /\ lane_count > prefered_per_lane[i]) =>
    Len(lanes_list[i]) >= prefered_per_lane[i]

\* C20: without central control the run never ends by an exception:
\* lane_switches always completes.
C20_LaneSwitchesNeverRaises ==
  ~central_control => (pc # "error" /\ err = "")

\* A decision tree that decelerates at the desired gap when vL = vF.
TakesDecelerate_at_equal_speed(vF, gap, vL) ==
  LET delta == gap * 100 - vF * TP IN
  IF gap < 6 * vF
    THEN \/ delta > 0 /\ vL < vF /\ gap <= 3 * vF
                      /\ ~(gap > 2 * vF /\ gap > 750)
         \/ delta = 0 /\ vL <= vF
         \/ delta < 0 /\ vL <= vF
    ELSE vF > desired_speed

\* compute_decision takes a branch marked "deccelerate" for a follower
\* speed vF, a gap and a leader speed vL.
TakesDecelerate(vF, gap, vL) ==
  LET delta == gap * 100 - vF * TP IN
  IF gap < 6 * vF
    THEN \/ delta > 0 /\ vL < vF /\ gap <= 3 * vF
                      /\ ~(gap > 2 * vF /\ gap > 750)
         \/ delta = 0 /\ vL < vF
         \/ delta < 0 /\ vL <= vF
    ELSE vF > desired_speed

\* C21: whenever compute_decision takes a decelerate branch, the
\* acceleration it writes is not positive.
C21_DecelerateNotPositive ==
  ( /\ ret.op = "compute_decision"
    /\ TakesDecelerate(cars[1].current_speed, ret.args[1], ret.args[2]) )
    => cars[1].acceleration <= 0

\* C22: the speed staged for a vehicle with a distinct leader is at most
\* max(0, v_safe), with and without central control.
C22_StagedSpeedBelowSafeSpeed ==
  (pc = "calculate_next_state" \/ (pc = "run" /\ line = "commit")) =>
    \A j \in 1..Len(handed) :
      LET a == handed[j] IN
      a.leader # a.vehicle =>
        cars[a.vehicle].next_speed[1]
          <= Max2(0, compute_safe_speed(a.vehicle, a.gap, a.leader_speed))

\* C23: update_state clears the staged next_speed: after a call of
\* update_state that returned, no vehicle of the track has a next_speed.
C23_CommitClearsNextSpeed ==
  (ret.op = "update_state" /\ pc = "run") =>
    \A v \in Cars : cars[v].next_speed = <<>>

\* C24: after the boundary correction of every timestep every position is
\* in [0, length); the correction subtracts length once from every vehicle
\* at or beyond length and counts one crossing for it, and changes and
\* counts no other vehicle.
C24_PositionsWrappedOnce ==
  /\ []((pc = "run" /\ line = "lane_change") =>
          \A v \in Cars :
            0 <= cars[v].position /\ cars[v].position < road_length)
  /\ [][(pc = "run" /\ line = "boundary") =>
          /\ \A v \in Cars :
               cars'[v] =
                 IF cars[v].position >= road_length
                   THEN [ cars[v] EXCEPT !.position = @ - road_length ]
                   ELSE cars[v]
          /\ total_crossings' = total_crossings
               + Cardinality({ v \in Cars : cars[v].position >= road_length })]_vars

\* C24's case: a timestep has ended in which one vehicle crossed the end of
\* the road and another did not.
C24_Witness ==
  /\ pc = "run" /\ line = "lane_change" /\ t >= 1
  /\ total_crossings = 1
  /\ Cardinality(Cars) >= 2
  /\ \E v \in Cars : cars[v].position_list[Len(cars[v].position_list)]
                        >= road_length

\* The distance from vehicle v forward to vehicle w on the circular road,
\* by the positions the decision pass began with.
Ahead(v, w) == (call_cars[w].position - call_cars[v].position) % road_length

\* C25: the gap handed to a vehicle with a distinct leader is
\* max(0, ((leader.position - vehicle.position) mod length) - leader.length),
\* the leader being the nearest vehicle strictly ahead in the lane in cyclic
\* order; the gap is at least 0 and below length.
C25_GapToNearestLeader ==
  \A j \in 1..Len(handed) :
    LET a == handed[j]
        v == a.vehicle
        others == Range(lanes_list[LaneOf(lanes_list, v)]) \ {v}
    IN a.leader # v =>
         /\ a.gap = Max2(0, Ahead(v, a.leader) - length)
         /\ a.leader \in others
         /\ Ahead(v, a.leader) > 0
         /\ \A w \in others :
              Ahead(v, w) > 0 => Ahead(v, a.leader) <= Ahead(v, w)
         /\ 0 <= a.gap /\ a.gap < road_length

\* The positions the queries are asked about: every vehicle's own, and the
\* two ends and the middle of the road.
QueryPositions ==
  { cars[v].position : v \in Cars } \cup {0, road_length \div 2, road_length - 1}

\* C26: on a sorted lane car_in_front(lane, p) is a vehicle of smallest
\* position among those strictly beyond p, or of lowest position in the lane
\* when there is none; car_in_back is a vehicle of largest position among
\* those strictly before p, or of highest position in the lane when there is
\* none; both are None on an empty lane; closest_cars_sides gives None for a
\* neighbouring index outside [0, lanes_count) and the (front, back) pair of
\* that lane otherwise.
C26_QueriesOnSortedLane ==
  \A p \in QueryPositions :
    \A lane \in Lanes :
      LET l == lanes_list[lane]
          members == Range(l)
          beyond == { w \in members : cars[w].position > p }
          before == { w \in members : cars[w].position < p }
          front == car_in_front(lane, p)
          back == car_in_back(lane, p)
          sides == closest_cars_sides(lane, p)
      IN /\ l = <<>> => front = NoCar /\ back = NoCar
         /\ (l # <<>> /\ IsSorted(cars, l)) =>
              /\ front \in members /\ back \in members
              /\ IF beyond # {}
                   THEN /\ front \in beyond
                        /\ \A w \in beyond :
                             cars[front].position <= cars[w].position
                   ELSE \A w \in members :
                          cars[front].position <= cars[w].position
              /\ IF before # {}
                   THEN /\ back \in before
                        /\ \A w \in before :
                             cars[back].position >= cars[w].position
                   ELSE \A w \in members :
                          cars[back].position >= cars[w].position
         /\ sides.left = IF lane + 1 \in Lanes
                           THEN Pair(car_in_front(lane + 1, p),
                                     car_in_back(lane + 1, p))
                           ELSE NoLane
         /\ sides.right = IF lane - 1 \in Lanes
                            THEN Pair(car_in_front(lane - 1, p),
                                      car_in_back(lane - 1, p))
                            ELSE NoLane

\* C26's case: can_switch_lane was called with the pair closest_cars_sides
\* gave for a sorted lane of two vehicles that are both before the asking
\* vehicle, so the front is the lane's lowest vehicle and the back its
\* highest, while the lane on the other side does not exist.
C26_Witness ==
  /\ ret.op = "can_switch_lane"
  /\ ret.args[2] \in Lanes
  /\ LET vehicle == ret.args[1]
         l == lanes_list[ret.args[2]]
         pair == ret.args[3]
         sides == closest_cars_sides(LaneOf(lanes_list, vehicle), cars[vehicle].position)
     IN /\ Len(l) = 2 /\ IsSorted(cars, l)
        /\ \A j \in 1..2 : cars[l[j]].position < cars[vehicle].position
        /\ pair = Pair(l[1], l[2])
        /\ NoLane \in {sides.left, sides.right}

\* C27: traditional_lane_switch returns +1 whenever the in-lane leader is at
\* least 5 m/s slower, the gap to it is below 5 * current_speed and the left
\* switch is permitted; with such a leader it never returns -1; otherwise it
\* returns -1 exactly when the right switch is permitted and the right lane
\* is empty or its front vehicle is more than 200 m ahead; 0 in all
\* remaining cases.
C27_TraditionalLaneSwitch ==
  (ret.op = "lane_switch" /\ ret.raised = "") =>
    LET self == ret.args[1]
        car_front == ret.args[2]
        cars_left == ret.args[3]
        cars_right == ret.args[4]
        value == ret.value[1]
        slow_close ==
          /\ cars[car_front].current_speed <= cars[self].current_speed - 500
          /\ (cars[car_front].position - cars[self].position) % road_length
               < 5 * cars[self].current_speed
        right_free ==
          /\ can_switch_lane(self, cars_right)
          /\ \/ cars_right.front = NoCar
             \/ (cars[cars_right.front].position - cars[self].position)
                  % road_length > 20000
    IN /\ value \in {-1, 0, 1}
       /\ (slow_close /\ can_switch_lane(self, cars_left)) => value = 1
       /\ slow_close => value # -1
       /\ ~slow_close => (value = -1 <=> right_free)
       /\ value = 1 => (slow_close /\ can_switch_lane(self, cars_left))

\* C28: a call of switch_lane with count # 0 that returns without an error
\* takes exactly one vehicle out of the source lane and appends that vehicle
\* to lane + count; the other lanes, the order of the vehicles that stay and
\* every vehicle's attributes are as before; a call that raises, and a call
\* with count = 0, leave every lane as it was.
C28_SwitchLaneFrame ==
  [][ (calls' = calls + 1 /\ ret'.op = "switch_lane") =>
        LET lane == ret'.args[1]
            count == ret'.args[3]
        IN /\ cars' = cars
           /\ (ret'.raised # "" \/ count = 0) => lanes_list' = lanes_list
           /\ (ret'.raised = "" /\ count # 0) =>
                \E j \in 1..Len(lanes_list[lane]) :
                  lanes_list' =
                    [ lanes_list EXCEPT
                        ![lane] = Remove(@, j),
                        ![lane + count] = Append(@, lanes_list[lane][j]) ]
    ]_vars

\* C29: for gap >= 0, vL >= 0 and vF >= 0, every decelerate branch of
\* compute_decision falls under one of the four cases of decceleration_rate,
\* so what it writes is never the default 0 of line 162; the divisor 2 * gap
\* of cases 2 and 4 is not zero, and neither is the divisor of
\* compute_safe_speed for the same gap and leader speed.
C29_DecelerateBranchesCovered ==
  ret.op = "compute_decision" =>
    LET vF == cars[1].current_speed
        gap == ret.args[1]
        vL == ret.args[2]
        aL == ret.args[3]
        case == decceleration_case(vF, vL, aL, gap, vF * TP)
    IN /\ vF >= 0 /\ gap >= 0 /\ vL >= 0
       /\ TakesDecelerate(vF, gap, vL) =>
            /\ case \in 1..4
            /\ case \in {2, 4} => 2 * gap # 0
            /\ cars[1].acceleration
                 = decceleration_rate(vF, vL, aL, gap, vF * TP)
       /\ 2 * a_max # 0
       /\ safe_speed_divisor(1, vL) # 0

\* C29's case: compute_decision took the decelerate branch of a follower
\* exactly at its desired gap behind a slower leader, which is case 2 with
\* its division by 2 * gap.
C29_Witness ==
  /\ ret.op = "compute_decision"
  /\ TakesDecelerate(cars[1].current_speed, ret.args[1], ret.args[2])
  /\ decceleration_case(cars[1].current_speed, ret.args[2], ret.args[3], ret.args[1], cars[1].current_speed * TP) = 2
  /\ cars[1].acceleration > 0

\* C30: a run ends after exactly the timesteps of its range, MaxSteps here,
\* and never otherwise; every pass that has begun comes back to the loop of
\* the run or ends by an exception.
C30_RunTerminates ==
  /\ <>(pc = "done" /\ t = MaxSteps)
  /\ [](pc = "done" => t = MaxSteps)
  /\ (pc \in {"lane_switches", "lane_switches_central", "calculate_next_state"})
       ~> (pc \in {"run", "error"})

====
